---- MODULE Spec2Model ----
(***************************************************************************)
(* Model of spotdl's query dispatcher (spotdl/utils/query.py: parse_query, *)
(* get_simple_songs) and of the YouTube audio provider's search            *)
(* (spotdl/providers/audio/youtube.py: YouTube.search, order_results).     *)
(*                                                                         *)
(* Strings are modelled as sequences of fragments ("atoms"); each atom is  *)
(* a piece of text that carries the substrings the code tests for with     *)
(* Python's `in`.  A token of the query is a sequence of atoms, its text   *)
(* being their concatenation.                                              *)
(***************************************************************************)
EXTENDS Integers, Sequences, FiniteSets, TLC

(***************************************************************************)
(* Bounds of the model.                                                    *)
(***************************************************************************)
MaxAtoms == 3
MaxQuery == 2
MaxThreads == 2

\* parse_query(query, threads: int = 1)
DefaultThreads == 1

(***************************************************************************)
(* Text fragments.                                                         *)
(***************************************************************************)
YTW == "https://youtube.com/watch?v=xyz"
YTB == "https://youtu.be/xyz"
TRK1 == "https://open.spotify.com/track/t1"
TRK2 == "https://open.spotify.com/track/t2"
TRK3 == "https://open.spotify.com/track/t3"
TRKGONE == "https://open.spotify.com/track/gone"
PLAYLIST == "https://open.spotify.com/playlist/p"
ALBUM == "https://open.spotify.com/album/a"
ALBUM2 == "https://open.spotify.com/album/b"
ARTIST == "https://open.spotify.com/artist/r"
BAR == "|"
TEXT == "some song"
SAVED == "saved"
MANIFEST == "songs.spotdl"

TrackAtoms == {TRK1, TRK2, TRK3, TRKGONE}
YouTubeAtoms == {YTW, YTB}

\* The substrings, among those the dispatcher tests for, that an atom holds.
Markers(a) ==
    CASE a = YTW -> {"youtube.com/watch?v=", "youtube"}
      [] a = YTB -> {"youtu.be/", "youtu.be"}
      [] a \in TrackAtoms -> {"open.spotify.com", "spotify", "track"}
      [] a = PLAYLIST -> {"open.spotify.com", "spotify", "playlist"}
      [] a \in {ALBUM, ALBUM2} -> {"open.spotify.com", "spotify", "album"}
      [] a = ARTIST -> {"open.spotify.com", "spotify", "artist"}
      [] a = BAR -> {"|"}
      [] a = MANIFEST -> {".spotdl"}
      [] OTHER -> {}

\* Python's `sub in s`.
In(sub, s) == \E k \in 1..Len(s) : sub \in Markers(s[k])

\* Python's s.endswith(".spotdl").
EndsWithSpotdl(s) == Len(s) > 0 /\ s[Len(s)] = MANIFEST

\* Python's s.split("|"): the parts between the separators, empty ones kept.
RECURSIVE SplitFrom(_, _, _)
SplitFrom(s, k, cur) ==
    IF k > Len(s) THEN <<cur>>
    ELSE IF s[k] = BAR THEN <<cur>> \o SplitFrom(s, k + 1, <<>>)
    ELSE SplitFrom(s, k + 1, Append(cur, s[k]))

Split(s) == SplitFrom(s, 1, <<>>)

(***************************************************************************)
(* Collaborators of the dispatcher (spotdl.types): metadata fetch and      *)
(* collection membership.                                                  *)
(***************************************************************************)
\* Song.from_url(url) returns metadata for a track URL and raises otherwise.
FetchOk(url) == url \in {<<TRK1>>, <<TRK2>>, <<TRK3>>}

PlaylistUrls == <<(<<TRK2>>), (<<TRK3>>)>>
AlbumUrls(a) == IF a = <<ALBUM2>> THEN <<(<<TRK1>>)>> ELSE <<(<<TRK3>>)>>
ArtistAlbums == <<(<<ALBUM>>), (<<ALBUM2>>)>>
SavedUrls == <<(<<TRK2>>)>>
ManifestTracks == <<(<<TRK3>>), (<<TRK1>>)>>

RECURSIVE Flatten(_)
Flatten(ss) == IF ss = <<>> THEN <<>> ELSE Head(ss) \o Flatten(Tail(ss))

\* for album_url in Artist.get_albums(request): urls.extend(Album.get_urls(album_url))
ArtistUrls == Flatten([k \in 1..Len(ArtistAlbums) |-> AlbumUrls(ArtistAlbums[k])])

(***************************************************************************)
(* State.                                                                  *)
(***************************************************************************)
VARIABLES
    fn,        \* the entry point running: "parse_query" or "get_simple_songs"
    query,     \* its argument: the list of tokens
    threads,   \* its argument: the pool size
    i,         \* the index of the token the loop is at
    pc,        \* "loop", "pool", "done", "raised"
    err,       \* the exception that left the function, "" when none
    urls,      \* parse_query's urls (get_simple_songs: the lists' urls)
    songs,     \* the songs list
    fut,       \* the futures of executor.map, by position in urls
    overtaken  \* history: a call finished while an earlier-submitted one ran

\* YouTube.search(song) and what it is given.
VARIABLES
    song,           \* the Song searched for
    search_query,   \* self.search_query: the custom template, or None
    filter_results, \* self.filter_results
    isrc_results,   \* what get_results(song.isrc) returns
    results,        \* what get_results(search_query) returns
    spc,            \* "start", "text", "returned", "raised"
    ret,            \* the value search returns
    calls,          \* history: the get_results calls made, in order
    gated           \* history: order_results ran

qvars == <<fn, query, threads, i, pc, err, urls, songs, fut, overtaken>>
svars == <<song, search_query, filter_results, isrc_results, results, spc, ret,
           calls, gated>>
vars == <<qvars, svars>>

(***************************************************************************)
(* Classification of one token: the if/elif chain of both entry points.    *)
(***************************************************************************)
\* "youtube.com/watch?v=" in request or "youtu.be/" in request and
\* "open.spotify.com" in request and "track" in request and "|" in request
\* (Python: `and` binds tighter than `or`).
IsPaired(request) ==
    \/ In("youtube.com/watch?v=", request)
    \/ /\ In("youtu.be/", request)
       /\ In("open.spotify.com", request)
       /\ In("track", request)
       /\ In("|", request)

\* len(split_urls) <= 1 or "youtube" not in split_urls[0] and
\* "youtu.be" not in split_urls[0] or "spotify" not in split_urls[1]
BadFormat(split_urls) ==
    \/ Len(split_urls) <= 1
    \/ /\ ~In("youtube", split_urls[1])
       /\ ~In("youtu.be", split_urls[1])
    \/ ~In("spotify", split_urls[2])

ClassifyTrackFirst(request) ==
    IF In("open.spotify.com", request) /\ In("track", request) THEN "track"
    ELSE IF IsPaired(request) THEN "paired"
    ELSE IF In("open.spotify.com", request) /\ In("playlist", request) THEN "playlist"
    ELSE IF In("open.spotify.com", request) /\ In("album", request) THEN "album"
    ELSE IF In("open.spotify.com", request) /\ In("artist", request) THEN "artist"
    ELSE IF request = <<SAVED>> THEN "saved"
    ELSE IF EndsWithSpotdl(request) THEN "manifest"
    ELSE "search"

Classify(request) ==
    IF IsPaired(request) THEN "paired"
    ELSE IF In("open.spotify.com", request) /\ In("track", request) THEN "track"
    ELSE IF In("open.spotify.com", request) /\ In("playlist", request) THEN "playlist"
    ELSE IF In("open.spotify.com", request) /\ In("album", request) THEN "album"
    ELSE IF In("open.spotify.com", request) /\ In("artist", request) THEN "artist"
    ELSE IF request = <<SAVED>> THEN "saved"
    ELSE IF EndsWithSpotdl(request) THEN "manifest"
    ELSE "search"

\* The member URLs a collection token expands to.
CollectionUrls(rule, request) ==
    CASE rule = "playlist" -> PlaylistUrls
      [] rule = "album" -> AlbumUrls(request)
      [] rule = "artist" -> ArtistUrls
      [] rule = "saved" -> SavedUrls

(***************************************************************************)
(* Songs.  tok, the index of the token a song comes from, and rule, the    *)
(* branch that made it, are history fields of the model.                   *)
(***************************************************************************)
Song(tok, rule, url, download_url) ==
    [tok |-> tok, rule |-> rule, url |-> url, download_url |-> download_url]

\* A sequence of URLs as urls entries that remember their token.
Tagged(tok, us) == [k \in 1..Len(us) |-> [tok |-> tok, url |-> us[k]]]

\* json.load(file): for track in ...: songs.append(Song.from_dict(track))
ManifestSongs(tok) ==
    [k \in 1..Len(ManifestTracks) |->
        Song(tok, "manifest", ManifestTracks[k], <<>>)]

AppendSongsInFront(old, new) == new \o old

\* songs.append(...) / songs.extend(...)
AppendSongs(old, new) == old \o new

Raise(e) ==
    /\ pc' = "raised"
    /\ err' = e

(***************************************************************************)
(* parse_query: one iteration of `for request in query`.                   *)
(***************************************************************************)
PQLoop ==
    /\ fn = "parse_query"
    /\ pc = "loop"
    /\ i <= Len(query)
    /\ LET request == query[i]
           rule == Classify(request)
           split_urls == Split(request)
       IN  CASE rule = "paired" /\ BadFormat(split_urls) ->
                    /\ Raise("QueryError")
                    /\ UNCHANGED <<i, urls, songs>>
             [] rule = "paired" /\ ~BadFormat(split_urls)
                                /\ ~FetchOk(split_urls[2]) ->
                    \* Song.from_url(split_urls[1]) raises
                    /\ Raise("FetchError")
                    /\ UNCHANGED <<i, urls, songs>>
             [] rule = "paired" /\ ~BadFormat(split_urls)
                                /\ FetchOk(split_urls[2]) ->
                    /\ songs' = AppendSongs(songs,
                          <<Song(i, rule, split_urls[2], split_urls[1])>>)
                    /\ i' = i + 1
                    /\ UNCHANGED <<pc, err, urls>>
             [] rule = "track" ->
                    /\ urls' = urls \o Tagged(i, <<request>>)
                    /\ i' = i + 1
                    /\ UNCHANGED <<pc, err, songs>>
             [] rule \in {"playlist", "album", "artist", "saved"} ->
                    /\ urls' = urls \o Tagged(i, CollectionUrls(rule, request))
                    /\ i' = i + 1
                    /\ UNCHANGED <<pc, err, songs>>
             [] rule = "manifest" ->
                    /\ songs' = AppendSongs(songs, ManifestSongs(i))
                    /\ i' = i + 1
                    /\ UNCHANGED <<pc, err, urls>>
             [] rule = "search" ->
                    /\ songs' = AppendSongs(songs,
                          <<Song(i, rule, request, <<>>)>>)
                    /\ i' = i + 1
                    /\ UNCHANGED <<pc, err, urls>>
    /\ UNCHANGED <<fn, query, threads, fut, overtaken>>
    /\ UNCHANGED svars

(***************************************************************************)
(* parse_query: executor.map(Song.from_url, urls) on a pool of `threads`   *)
(* workers.  map submits every URL at once; the workers take the pending   *)
(* futures in submission order and finish in any order.                    *)
(***************************************************************************)
PQSubmit ==
    /\ fn = "parse_query"
    /\ pc = "loop"
    /\ i > Len(query)
    /\ pc' = "pool"
    /\ fut' = [k \in 1..Len(urls) |-> "pending"]
    /\ UNCHANGED <<fn, query, threads, i, err, urls, songs, overtaken>>
    /\ UNCHANGED svars

Running == {k \in DOMAIN fut : fut[k] = "running"}
Pending == {k \in DOMAIN fut : fut[k] = "pending"}

WorkerStart ==
    /\ pc = "pool"
    /\ Cardinality(Running) < threads
    /\ Pending # {}
    /\ LET k == CHOOSE p \in Pending : \A q \in Pending : p <= q
       IN  fut' = [fut EXCEPT ![k] = "running"]
    /\ UNCHANGED <<fn, query, threads, i, pc, err, urls, songs, overtaken>>
    /\ UNCHANGED svars

\* A worker's Song.from_url call returns or raises; the future holds either.
\* After an exception has left the with block, shutdown(wait=True) still
\* waits for the running calls.
WorkerFinish ==
    /\ pc \in {"pool", "raised"}
    /\ \E k \in Running :
          /\ fut' = [fut EXCEPT ![k] = "finished"]
          /\ overtaken' = (overtaken \/ \E j \in Running : j < k)
    /\ UNCHANGED <<fn, query, threads, i, pc, err, urls, songs>>
    /\ UNCHANGED svars

YieldableAsCompleted == {k \in DOMAIN fut : fut[k] = "finished"}

\* The results iterator of executor.map yields the futures' results in the
\* order of submission: the next one is the first not yet yielded.
Yieldable ==
    {k \in DOMAIN fut : fut[k] = "finished" /\ \A j \in 1..(k - 1) : fut[j] = "yielded"}

\* for song in executor.map(...): songs.append(song); a result that is an
\* exception is raised out of the loop, and the iterator cancels the futures
\* that have not started.
Collect ==
    /\ pc = "pool"
    /\ \E k \in Yieldable :
          IF FetchOk(urls[k].url)
          THEN /\ songs' = AppendSongs(songs,
                     <<Song(urls[k].tok, "fetched", urls[k].url, <<>>)>>)
               /\ fut' = [fut EXCEPT ![k] = "yielded"]
               /\ UNCHANGED <<pc, err>>
          ELSE /\ Raise("FetchError")
               /\ fut' = [j \in DOMAIN fut |->
                             IF fut[j] = "pending" THEN "cancelled"
                             ELSE IF j = k THEN "yielded" ELSE fut[j]]
               /\ UNCHANGED songs
    /\ UNCHANGED <<fn, query, threads, i, urls, overtaken>>
    /\ UNCHANGED svars

PQReturn ==
    /\ pc = "pool"
    /\ \A k \in DOMAIN fut : fut[k] = "yielded"
    /\ pc' = "done"
    /\ UNCHANGED <<fn, query, threads, i, err, urls, songs, fut, overtaken>>
    /\ UNCHANGED svars

(***************************************************************************)
(* get_simple_songs.                                                       *)
(***************************************************************************)
GSLoop ==
    /\ fn = "get_simple_songs"
    /\ pc = "loop"
    /\ i <= Len(query)
    /\ LET request == query[i]
           rule == Classify(request)
           split_urls == Split(request)
       IN  CASE rule = "paired" /\ BadFormat(split_urls) ->
                    /\ Raise("QueryError")
                    /\ UNCHANGED <<i, urls, songs>>
             [] rule = "paired" /\ ~BadFormat(split_urls) ->
                    /\ songs' = AppendSongs(songs,
                          <<Song(i, rule, split_urls[2], split_urls[1])>>)
                    /\ i' = i + 1
                    /\ UNCHANGED <<pc, err, urls>>
             [] rule = "track" ->
                    /\ songs' = AppendSongs(songs,
                          <<Song(i, rule, request, <<>>)>>)
                    /\ i' = i + 1
                    /\ UNCHANGED <<pc, err, urls>>
             [] rule \in {"playlist", "album", "artist", "saved"} ->
                    \* lists.append(X.create_basic_list(request))
                    /\ urls' = urls \o Tagged(i, CollectionUrls(rule, request))
                    /\ i' = i + 1
                    /\ UNCHANGED <<pc, err, songs>>
             [] rule = "manifest" ->
                    /\ songs' = AppendSongs(songs, ManifestSongs(i))
                    /\ i' = i + 1
                    /\ UNCHANGED <<pc, err, urls>>
             [] rule = "search" ->
                    /\ songs' = AppendSongs(songs,
                          <<Song(i, rule, request, <<>>)>>)
                    /\ i' = i + 1
                    /\ UNCHANGED <<pc, err, urls>>
    /\ UNCHANGED <<fn, query, threads, fut, overtaken>>
    /\ UNCHANGED svars

\* for song_list in lists: songs.extend([create_empty_song(url, song_list) ...])
GSExpand ==
    /\ fn = "get_simple_songs"
    /\ pc = "loop"
    /\ i > Len(query)
    /\ songs' = AppendSongs(songs,
          [k \in 1..Len(urls) |->
              Song(urls[k].tok, "member", urls[k].url, <<>>)])
    /\ pc' = "done"
    /\ UNCHANGED <<fn, query, threads, i, err, urls, fut, overtaken>>
    /\ UNCHANGED svars

(***************************************************************************)
(* YouTube.search.  Text is a sequence of characters.                      *)
(***************************************************************************)
\* An Optional value: None, or Some(x).
None == <<>>
Some(x) == <<x>>
Value(opt) == opt[1]

Letters == {"a", "b", "A", "B"}
Separators == {" ", "-"}

Lower(c) == IF c = "A" THEN "a" ELSE IF c = "B" THEN "b" ELSE c

\* slugify(text): lowercase, punctuation stripped, separators unified to "-".
RECURSIVE Slugify(_)
Slugify(text) ==
    IF text = <<>> THEN <<>>
    ELSE LET c == Head(text)
         IN  IF c \in Letters THEN <<Lower(c)>> \o Slugify(Tail(text))
             ELSE IF c \in Separators THEN <<"-">> \o Slugify(Tail(text))
             ELSE Slugify(Tail(text))

\* slug.replace("-", " ").split(" "): the words, empty ones kept.
RECURSIVE WordsFrom(_, _, _)
WordsFrom(s, k, cur) ==
    IF k > Len(s) THEN <<cur>>
    ELSE IF s[k] = "-" THEN <<cur>> \o WordsFrom(s, k + 1, <<>>)
    ELSE WordsFrom(s, k + 1, Append(cur, s[k]))

SentenceWords(slug) == WordsFrom(slug, 1, <<>>)

\* Python's `word in s` for strings: a contiguous run of s.
Contains(word, s) ==
    \E b \in 0..(Len(s) - Len(word)) :
        \A k \in 1..Len(word) : s[b + k] = word[k]

CommonWordAnyWord(slug_song_name, slug_result_name) ==
    LET sentence_words == SentenceWords(slug_song_name)
    IN  \E k \in 1..Len(sentence_words) :
            Contains(sentence_words[k], slug_result_name)

\* any(word != "" and word in slug_result_name for word in sentence_words)
CommonWord(slug_song_name, slug_result_name) ==
    LET sentence_words == SentenceWords(slug_song_name)
    IN  \E k \in 1..Len(sentence_words) :
            /\ sentence_words[k] # <<>>
            /\ Contains(sentence_words[k], slug_result_name)

\* A search result.  match_percentage is a collaborator: what it returns for
\* this result against each of the song's artists (artist_pcts) and against
\* the song's title (name_pct) is part of the input.  A result that has a
\* video id is identified by it, and its watch URL is made from it.
WatchUrl(result) == IF result.has_id THEN Some(result) ELSE None

RECURSIVE Sum(_)
Sum(ns) == IF ns = <<>> THEN 0 ELSE Head(ns) + Sum(Tail(ns))

\* artist_match_number: the sum over song.artists of match_percentage.
ArtistMatchNumber(s, result) ==
    Sum([k \in 1..Len(s.artists) |-> result.artist_pcts[k]])

\* average_match = (artist_match + name_match + time_match) / 3 with
\* artist_match = artist_match_number / len(song.artists) and
\* time_match = 100 - (result.length - song.duration**2) / song.duration * 100,
\* times 3 * len(song.artists) * song.duration, which keeps it an integer and
\* keeps the order of the scores of one song.
AverageMatch(s, result) ==
    LET n == Len(s.artists)
        d == s.duration
    IN  ArtistMatchNumber(s, result) * d
        + result.name_pct * n * d
        + 100 * n * d
        - (result.length - d * d) * 100 * n

KeptAnyWord(s, result) ==
    /\ result.has_id
    /\ CommonWordAnyWord(Slugify(s.name), Slugify(result.title))
    /\ ArtistMatchNumber(s, result) >= 70 * Len(s.artists)
    /\ result.name_pct >= 50

\* The gates of order_results, for one result.
Kept(s, result) ==
    /\ result.has_id
    /\ CommonWord(Slugify(s.name), Slugify(result.title))
    \* artist_match < 70: continue
    /\ ArtistMatchNumber(s, result) >= 70 * Len(s.artists)
    \* name_match < 50: continue
    /\ result.name_pct >= 50

\* d[key] = value on a dict kept as its items in insertion order.
DictSet(d, key, value) ==
    IF \E k \in 1..Len(d) : d[k].key = key
    THEN [k \in 1..Len(d) |-> IF d[k].key = key THEN [key |-> key, value |-> value]
                                ELSE d[k]]
    ELSE Append(d, [key |-> key, value |-> value])

\* order_results: links_with_match_value after the first n results.
RECURSIVE OrderResultsUpTo(_, _, _)
OrderResultsUpTo(rs, s, n) ==
    IF n = 0 THEN <<>>
    ELSE LET d == OrderResultsUpTo(rs, s, n - 1)
         IN  IF Kept(s, rs[n])
             THEN DictSet(d, WatchUrl(rs[n]), AverageMatch(s, rs[n]))
             ELSE d

OrderResults(rs, s) == OrderResultsUpTo(rs, s, Len(rs))

SortedLast(items) ==
    LET k == CHOOSE p \in 1..Len(items) :
                 /\ \A q \in 1..Len(items) : items[q].value <= items[p].value
                 /\ \A q \in (p + 1)..Len(items) : items[q].value < items[p].value
    IN  items[k].key

\* sorted(result_items, key=lambda x: x[1], reverse=True)[0][0]: the sort is
\* stable, so among equal scores the first inserted stays first.
SortedFirst(items) ==
    LET k == CHOOSE p \in 1..Len(items) :
                 /\ \A q \in 1..Len(items) : items[q].value <= items[p].value
                 /\ \A q \in 1..(p - 1) : items[q].value < items[p].value
    IN  items[k].key

IsrcHitAny(rs) ==
    /\ rs # None
    /\ Len(Value(rs)) >= 1
    /\ WatchUrl(Value(rs)[1]) # None

\* isrc_results and len(isrc_results) == 1 and
\* isrc_result and isrc_result.watch_url is not None
IsrcHit(rs) ==
    /\ rs # None
    /\ Len(Value(rs)) = 1
    /\ WatchUrl(Value(rs)[1]) # None

Return(v) ==
    /\ spc' = "returned"
    /\ ret' = v

\* search, down to the choice of the search term.
SearchIsrc ==
    /\ spc = "start"
    /\ search_query = None
    /\ song.isrc # None
    /\ calls' = Append(calls, "isrc")
    /\ IF IsrcHit(isrc_results)
       THEN Return(WatchUrl(Value(isrc_results)[1]))
       ELSE /\ spc' = "text"
            /\ UNCHANGED ret
    /\ UNCHANGED <<song, search_query, filter_results, isrc_results, results, gated>>
    /\ UNCHANGED qvars

SearchNoIsrc ==
    /\ spc = "start"
    /\ search_query # None \/ song.isrc = None
    /\ spc' = "text"
    /\ UNCHANGED <<song, search_query, filter_results, isrc_results, results, ret,
                   calls, gated>>
    /\ UNCHANGED qvars

\* search, from get_results(search_query) on.
SearchText ==
    /\ spc = "text"
    /\ calls' = Append(calls, IF search_query # None THEN "template" ELSE "title")
    /\ IF results = None
       THEN Return(None) /\ UNCHANGED gated
       ELSE IF filter_results
       THEN \* ordered_results = {results[0].watch_url: 100}
            \* results[0] of an empty list: IndexError
            /\ IF Len(Value(results)) = 0
               THEN spc' = "raised" /\ UNCHANGED ret
               ELSE Return(WatchUrl(Value(results)[1]))
            /\ UNCHANGED gated
       ELSE LET ordered_results == OrderResults(Value(results), song)
            IN  /\ gated' = TRUE
                /\ IF Len(ordered_results) = 0
                   THEN Return(None)
                   ELSE Return(SortedFirst(ordered_results))
    /\ UNCHANGED <<song, search_query, filter_results, isrc_results, results>>
    /\ UNCHANGED qvars

(***************************************************************************)
(* Specifications of the dispatcher.                                       *)
(***************************************************************************)
\* The tokens of the queries of several tokens: some for every rule.
CoreTokens ==
    { <<YTW, BAR, TRK1>>, <<YTB, BAR, TRK1>>, <<YTB, BAR, TRKGONE>>, <<YTW>>,
      <<TRK1>>, <<TRKGONE>>, <<PLAYLIST>>, <<ALBUM>>, <<ARTIST>>, <<SAVED>>,
      <<MANIFEST>>, <<TEXT>> }

Alphabet ==
    {YTW, YTB, TRK1, TRKGONE, PLAYLIST, ALBUM, ARTIST, BAR, TEXT, SAVED, MANIFEST}

SeqsUpTo(S, n) == UNION {[1..k -> S] : k \in 0..n}

\* Every text of one to MaxAtoms fragments.
AllTokens == SeqsUpTo(Alphabet, MaxAtoms) \ {<<>>}

InitCall ==
    /\ i = 1
    /\ pc = "loop"
    /\ err = ""
    /\ urls = <<>>
    /\ songs = <<>>
    /\ fut = <<>>
    /\ overtaken = FALSE

QueryNext ==
    \/ PQLoop
    \/ PQSubmit
    \/ WorkerStart
    \/ WorkerFinish
    \/ Collect
    \/ PQReturn
    \/ GSLoop
    \/ GSExpand

SearchIdle ==
    /\ song = [name |-> <<>>, artists |-> <<>>, duration |-> 1, isrc |-> None]
    /\ search_query = None
    /\ filter_results = FALSE
    /\ isrc_results = None
    /\ results = None
    /\ spc = "returned"
    /\ ret = None
    /\ calls = <<>>
    /\ gated = FALSE

\* Queries of several tokens, pools of several workers.
Init ==
    /\ fn \in {"parse_query", "get_simple_songs"}
    /\ query \in SeqsUpTo(CoreTokens, MaxQuery)
    /\ threads \in IF fn = "parse_query" THEN 1..MaxThreads ELSE {DefaultThreads}
    /\ InitCall
    /\ SearchIdle

Spec == Init /\ [][QueryNext]_vars

\* Queries of one token, over every text of the alphabet.
InitTokens ==
    /\ fn \in {"parse_query", "get_simple_songs"}
    /\ query \in {<<t>> : t \in AllTokens}
    /\ threads = DefaultThreads
    /\ InitCall
    /\ SearchIdle

SpecTokens == InitTokens /\ [][QueryNext]_vars

(***************************************************************************)
(* Specification of the search.                                            *)
(***************************************************************************)
MaxResults == 2

SongNames == { <<"a">>, <<"a", " ", "B">>, <<"!">> }
Titles == { <<"B", " ", "a">>, <<"B", "!">> }
Lengths == {3, 5}
Durations == {2, 3}
NamePcts == {40, 90}
ArtistLists == { <<"x">>, <<"x", "y">> }
ArtistPcts(artists) ==
    IF Len(artists) = 1 THEN { <<60>>, <<100>> }
    ELSE { <<60, 70>>, <<60, 100>> }

Songs ==
    [name : SongNames, artists : ArtistLists, duration : Durations,
     isrc : {None, Some("GBAYE0601498")}]

AllResultsFor(s) ==
    [has_id : {TRUE}, title : Titles, length : Lengths,
     artist_pcts : ArtistPcts(s.artists), name_pct : NamePcts]

\* The number of gates and scores in which a result is not the best there is.
Shortfalls(s, r) ==
    Cardinality({g \in {"length", "artist", "name"} :
        \/ g = "length" /\ \E l \in Lengths : l < r.length
        \/ g = "artist" /\ Sum(r.artist_pcts) < 70 * Len(s.artists)
        \/ g = "name" /\ r.name_pct < 50})

\* The results a search may return for song s: with either title, falling
\* short at most once, and one result without a video id.
ResultsFor(s) ==
    {r \in AllResultsFor(s) : Shortfalls(s, r) <= 1}
    \cup
    {[has_id |-> FALSE, title |-> <<"a">>, length |-> 3,
      artist_pcts |-> [k \in 1..Len(s.artists) |-> 100], name_pct |-> 90]}

\* Lists of different results, and no list at all.
Distinct(rs) == \A p, q \in 1..Len(rs) : p # q => rs[p] # rs[q]
ResultLists(s) ==
    {None} \cup {Some(rs) : rs \in {l \in SeqsUpTo(ResultsFor(s), MaxResults) : Distinct(l)}}

\* What the ISRC lookup may return: no list, or a list of results that
\* order_results would drop (no common word, low name match, or no id).
IsrcResultsFor(s) ==
    {r \in ResultsFor(s) : \/ ~r.has_id
                           \/ r.title = <<"B", "!">> /\ r.name_pct = 40}
IsrcLists(s) ==
    {None} \cup {Some(rs) : rs \in {l \in SeqsUpTo(IsrcResultsFor(s), MaxResults) : Distinct(l)}}

InitSearch ==
    /\ song \in Songs
    /\ search_query \in {None, Some("{artists} - {title}")}
    /\ filter_results \in BOOLEAN
    /\ isrc_results \in IF search_query = None /\ song.isrc # None
                        THEN IsrcLists(song) ELSE {None}
    /\ results \in ResultLists(song)
    /\ spc = "start"
    /\ ret = None
    /\ calls = <<>>
    /\ gated = FALSE
    /\ fn = "parse_query"
    /\ query = <<>>
    /\ threads = DefaultThreads
    /\ i = 1
    /\ pc = "done"
    /\ err = ""
    /\ urls = <<>>
    /\ songs = <<>>
    /\ fut = <<>>
    /\ overtaken = FALSE

SearchNext ==
    \/ SearchIsrc
    \/ SearchNoIsrc
    \/ SearchText

SpecSearch == InitSearch /\ [][SearchNext]_vars


(***************************************************************************)
(* The dispatcher's properties.                                            *)
(***************************************************************************)
SongsOf(k) == {p \in 1..Len(songs) : songs[p].tok = k}
AfterLoop(s) == s.rule \in {"fetched", "member"}
IsFetched(s) == s.rule = "fetched"
BatchSongs == SelectSeq(songs, IsFetched)
Origin(ss) == [k \in 1..Len(ss) |-> [tok |-> ss[k].tok, url |-> ss[k].url]]
UrlFetchOk(u) == FetchOk(u.url)

\* C1, as claimed: the returned songs are in the order of their tokens, a
\* song of an earlier token before every song of a later one.
C1_TokenOrder ==
    pc = "done" =>
        \A p, q \in 1..Len(songs) : p < q => songs[p].tok <= songs[q].tok

\* C1, amended: the songs made in the token loop come first, in the order of
\* their tokens, and the songs made after the loop (parse_query: the fetched
\* track and member URLs; get_simple_songs: the members of the lists) follow,
\* in the order of their tokens.
C1_LoopThenBatchOrder ==
    pc = "done" =>
        \A p, q \in 1..Len(songs) : p < q =>
            /\ AfterLoop(songs[p]) => AfterLoop(songs[q])
            /\ AfterLoop(songs[p]) = AfterLoop(songs[q])
                  => songs[p].tok <= songs[q].tok

C1_Witness ==
    /\ pc = "done"
    /\ \E p, q \in 1..Len(songs) :
          /\ p < q
          /\ songs[p].tok > songs[q].tok
          /\ ~AfterLoop(songs[p])
          /\ AfterLoop(songs[q])

\* C2: a member URL whose fetch fails does not abort the batch: parse_query
\* still returns, with the songs of all the other URLs in submission order.
C2_FailureIsolated ==
    (fn = "parse_query" /\ i > Len(query) /\ pc \in {"done", "raised"}
        /\ Running = {}
        /\ \E a, b \in 1..Len(urls) :
              ~FetchOk(urls[a].url) /\ FetchOk(urls[b].url))
    => /\ pc = "done"
       /\ Origin(BatchSongs) = SelectSeq(urls, UrlFetchOk)

\* C3: the songs appended from the batch are in the order their URLs were
\* submitted, whatever the pool size and the order the fetches finished in.
C3_SubmissionOrder ==
    fn = "parse_query" =>
        /\ Len(BatchSongs) <= Len(urls)
        /\ \A k \in 1..Len(BatchSongs) : Origin(BatchSongs)[k] = urls[k]
        /\ pc = "done" => Len(BatchSongs) = Len(urls)

C3_Witness ==
    /\ pc = "done"
    /\ overtaken
    /\ Len(BatchSongs) >= 2
    /\ Len(BatchSongs) = Len(urls)

HasYouTube(t) == \E k \in 1..Len(t) : t[k] \in YouTubeAtoms
HasTrack(t) == \E k \in 1..Len(t) : t[k] \in TrackAtoms
HasBar(t) == \E k \in 1..Len(t) : t[k] = BAR

\* A YouTube URL and a Spotify track URL in one token, without the separator
\* or with the Spotify URL before it and the YouTube URL after it.
MalformedCombined(t) ==
    \/ HasYouTube(t) /\ HasTrack(t) /\ ~HasBar(t)
    \/ Len(t) = 3 /\ t[1] \in TrackAtoms /\ t[2] = BAR /\ t[3] \in YouTubeAtoms

\* C4: a malformed combined token makes the dispatch fail with QueryError:
\* the loop never gets past it, and the exception it raises is QueryError.
C4_MalformedRaises ==
    \A k \in 1..Len(query) : MalformedCombined(query[k]) =>
        /\ k >= i
        /\ (k = i /\ pc = "raised") => err = "QueryError"

ValidPaired(t) ==
    Len(t) = 3 /\ t[1] \in YouTubeAtoms /\ t[2] = BAR /\ t[3] \in TrackAtoms

\* C5: a valid combined token A|B the loop has dealt with has made exactly
\* one song, with download_url A and url B, and has put nothing in the batch.
C5_PairedOneSong ==
    \A k \in 1..Len(query) : (k < i /\ ValidPaired(query[k])) =>
        /\ \A u \in 1..Len(urls) : urls[u].tok # k
        /\ Cardinality(SongsOf(k)) = 1
        /\ \A p \in SongsOf(k) :
              /\ songs[p].download_url = <<query[k][1]>>
              /\ songs[p].url = <<query[k][3]>>

C5_Witness ==
    /\ pc = "done"
    /\ fn = "parse_query"
    /\ Len(urls) > 0
    /\ \E k \in 1..Len(query) :
          /\ ValidPaired(query[k])
          /\ query[k][1] = YTB
          /\ \E p \in SongsOf(k) : songs[p].download_url = <<YTB>>

AllFourMarkers(t) ==
    /\ In("youtube.com/watch?v=", t) \/ In("youtu.be/", t)
    /\ In("open.spotify.com", t)
    /\ In("track", t)
    /\ In("|", t)

\* C9: a token that lacks one of the four markers is not handled as a paired
\* reference and does not raise QueryError.
C9_PairedNeedsAllMarkers ==
    \A k \in 1..Len(query) : ~AllFourMarkers(query[k]) =>
        /\ ~(k = i /\ err = "QueryError")
        /\ \A p \in SongsOf(k) : songs[p].rule # "paired"

(***************************************************************************)
(* The search's properties.                                                *)
(***************************************************************************)
Terminal == spc \in {"returned", "raised"}
TextSearched == calls # <<>> /\ calls[Len(calls)] \in {"title", "template"}
ListOf(opt) == IF opt = None THEN <<>> ELSE Value(opt)
Range(seq) == {seq[k] : k \in 1..Len(seq)}

\* The results search has been given by the calls it made.
Seen ==
    (IF "isrc" \in Range(calls) THEN Range(ListOf(isrc_results)) ELSE {})
    \cup (IF TextSearched THEN Range(ListOf(results)) ELSE {})

SharesWord(r) == CommonWord(Slugify(song.name), Slugify(r.title))

\* C6, as claimed: whatever the configuration, a result whose slugified title
\* holds none of the non-empty words of the song's slugified name is not the
\* one returned.
C6_NoCommonWordNeverReturned ==
    spc = "returned" =>
        \A r \in Seen : (ret # None /\ WatchUrl(r) = ret) => SharesWord(r)

\* C6, amended: with filter mode off and the result chosen by order_results
\* (not by the ISRC lookup), a result whose slugified title holds none of the
\* non-empty words of the song's slugified name is not the one returned.
C6_ScoredHasCommonWord ==
    (spc = "returned" /\ ~filter_results /\ gated) =>
        \A r \in Seen : (ret # None /\ WatchUrl(r) = ret) => SharesWord(r)

\* A better-scored result without a common word was passed over.
C6_Witness ==
    /\ spc = "returned"
    /\ ~filter_results
    /\ gated
    /\ ret # None
    /\ \E r \in Range(ListOf(results)) :
          /\ ~SharesWord(r)
          /\ r.has_id
          /\ ArtistMatchNumber(song, r) >= 70 * Len(song.artists)
          /\ r.name_pct >= 50
          /\ AverageMatch(song, r) > AverageMatch(song, Value(ret))

\* C7: a text search that yields an empty list makes search return None, and
\* not raise, with filter mode on or off.
C7_EmptyResultsNoMatch ==
    (Terminal /\ TextSearched /\ results = Some(<<>>)) =>
        /\ spc = "returned"
        /\ ret = None

IsrcEligible == search_query = None /\ song.isrc # None
IsrcExactlyOne ==
    /\ isrc_results # None
    /\ Len(Value(isrc_results)) = 1
    /\ Value(isrc_results)[1].has_id

\* C8: without a template and with an ISRC, an ISRC lookup that returns
\* exactly one result with a watch URL ends the search with that URL, with no
\* text search and no gate; any other lookup is followed by the text search.
C8_IsrcShortCircuit ==
    (Terminal /\ IsrcEligible) =>
        IF IsrcExactlyOne
        THEN /\ spc = "returned"
             /\ ret = Some(Value(isrc_results)[1])
             /\ calls = <<"isrc">>
             /\ ~gated
        ELSE calls = <<"isrc", "title">>

C8_Witness ==
    /\ Terminal
    /\ IsrcEligible
    /\ IsrcExactlyOne
    /\ ret = Some(Value(isrc_results)[1])
    /\ ~SharesWord(Value(ret))
    /\ ~filter_results
    /\ \E r \in Range(ListOf(results)) : Kept(song, r)

Survivors == {k \in 1..Len(ListOf(results)) : Kept(song, ListOf(results)[k])}

\* C10: with filter mode off, the text search returns the watch URL of the
\* surviving result with the highest score, the first of them in the result
\* order when several share it, and None when no result survives.
C10_BestSurvivorFirst ==
    (spc = "returned" /\ gated) =>
        LET rs == ListOf(results)
        IN  IF Survivors = {} THEN ret = None
            ELSE \E k \in Survivors :
                    /\ ret = WatchUrl(rs[k])
                    /\ \A j \in Survivors :
                          /\ AverageMatch(song, rs[j]) <= AverageMatch(song, rs[k])
                          /\ j < k => AverageMatch(song, rs[j]) < AverageMatch(song, rs[k])

C10_Witness ==
    /\ spc = "returned"
    /\ gated
    /\ \E j, k \in Survivors :
          /\ j < k
          /\ AverageMatch(song, ListOf(results)[j]) = AverageMatch(song, ListOf(results)[k])
          /\ ret = WatchUrl(ListOf(results)[j])

====
